---- MODULE Spec2Model ----
(***************************************************************************)
(* The embeddable widget loader of frontend/widget/src/index.tsx: the      *)
(* three module handles, the part of the host document the loader touches, *)
(* the React roots it creates, the console, and the operations init,       *)
(* destroy and the DOMContentLoaded listener, together with what the host  *)
(* page can do around them (parse <body>, detach the loader's container).  *)
(* Then the admin dashboard: the embed-code dialog of WidgetsPage, the API  *)
(* client of lib/api.ts (fetchWithAuth, checkAuth) and the request flows of *)
(* LoginPage, BotsPage, BotFormPage and SettingsPage, each under a         *)
(* specification of its own.                                               *)
(***************************************************************************)
EXTENDS Integers, Sequences, FiniteSets, TLC

(* ---------------------------- bounds ----------------------------------- *)

\* Number of init/destroy calls the host page makes in one behaviour.
MaxCalls == 3

\* Number of elements the host page itself has in <body>.
MaxHostNodes == 1

\* Number of requests the admin dashboard sends in one behaviour.
MaxRequests == 2

(* ---------------------------- values ----------------------------------- *)

\* null, as held by a module handle or returned by parentNode.
Null == 0

\* The node document.body; the host page's own elements are the nodes below it.
Body == 0 - 1

\* undefined / a missing property / a missing attribute.
Absent == "undefined"

\* JavaScript truthiness of a string-or-undefined value: !v is true for
\* undefined, null and the empty string.
Truthy(v) == v # Absent /\ v # ""

\* The config arguments the host page passes to init: every combination of
\* a present, empty or missing botId and apiKey, the optional fields both
\* given and left out, and (defined = FALSE) a call with no object at all,
\* init(undefined).
WidgetConfig ==
    [defined : {TRUE}, botId : {"b1", "b2"}, apiKey : {"k1"},
     apiUrl : {Absent, "u1"}, elementId : {Absent, "e1"}]
        \cup
    [defined : {TRUE}, botId : {Absent, "", "b1"}, apiKey : {Absent, "", "k1"},
     apiUrl : {Absent}, elementId : {Absent}]
        \cup
    [defined : {FALSE}, botId : {Absent}, apiKey : {Absent},
     apiUrl : {Absent}, elementId : {Absent}]

\* Placeholder recorded for an operation that received no config.
NoConfig ==
    [defined |-> FALSE, botId |-> Absent, apiKey |-> Absent,
     apiUrl |-> Absent, elementId |-> Absent]

\* The <script> elements of the document, in document order, each with its
\* data-myndulon-bot-id / -api-key / -api-url attributes (Absent: the element
\* does not carry the attribute): the documents the loader is evaluated in.
ScriptLists ==
    { <<>>,
      << [botId |-> "b3", apiKey |-> "k3", apiUrl |-> Absent] >>,
      << [botId |-> "b3", apiKey |-> "k3", apiUrl |-> "u3"] >>,
      << [botId |-> "b3", apiKey |-> "k3", apiUrl |-> ""] >>,
      << [botId |-> "b3", apiKey |-> Absent, apiUrl |-> Absent] >>,
      << [botId |-> "b3", apiKey |-> "", apiUrl |-> "u3"] >>,
      << [botId |-> Absent, apiKey |-> Absent, apiUrl |-> Absent],
         [botId |-> "b3", apiKey |-> "k3", apiUrl |-> "u3"] >>,
      << [botId |-> "", apiKey |-> "k3", apiUrl |-> Absent],
         [botId |-> "b3", apiKey |-> "k3", apiUrl |-> "u3"] >>,
      << [botId |-> "b3", apiKey |-> Absent, apiUrl |-> Absent],
         [botId |-> "b4", apiKey |-> "k4", apiUrl |-> Absent] >> }

(* ---------------------------- state ------------------------------------ *)

VARIABLES
    widgetRoot,      \* module handle: id of the React root, or Null
    widgetContainer, \* module handle: id of the container <div>, or Null
    shadowRoot,      \* module handle: id of the shadow root, or Null
    bodyPresent,     \* document.body is non-null
    bodyChildren,    \* children of document.body, in order (host nodes < 0, loader containers > 0)
    mounted,         \* the React roots currently mounted: records [id, config]
    created,         \* number of container elements created so far (element k hosts shadow k and root k)
    console,         \* the diagnostic output, oldest first
    scripts,         \* the document's <script> elements
    domReady,        \* DOMContentLoaded has been dispatched
    listening,       \* the loader's DOMContentLoaded listener will still be run
    autoRuns,        \* times the DOMContentLoaded listener has run
    calls,           \* init/destroy calls made by the host page so far
    dashboard,       \* WidgetsPage: selectedBot, codeDialogOpen, copied
    clipboard,       \* the embed code last copied from the dashboard
    api,             \* lib/api.ts: the call in flight, what fetch produced and what the call did
    loginPage,       \* LoginPage: username, password, error, isLoading, the login call, the route
    botsPage,        \* BotsPage: deleteDialogOpen, botToDelete, the delete mutations in flight
    botForm,         \* BotFormPage (create mode): the create mutation, isTraining, trainingMessage
    settings,        \* SettingsPage: config, isLoading, isSaving, the requests in flight
    requests,        \* requests the dashboard has sent so far
    lastOp           \* what the most recent operation was given and did

vars ==
    << widgetRoot, widgetContainer, shadowRoot, bodyPresent, bodyChildren, mounted,
       created, console, scripts, domReady, listening, autoRuns, calls,
       dashboard, clipboard, api, loginPage, botsPage, botForm, settings, requests,
       lastOp >>

\* The admin dashboard's pages and API client, which the widget loader and
\* the embed-code dialog never touch.
pages == << api, loginPage, botsPage, botForm, settings, requests >>

\* The loader's view of the world, as one record the operations transform.
Current ==
    [widgetRoot |-> widgetRoot, widgetContainer |-> widgetContainer,
     shadowRoot |-> shadowRoot, bodyPresent |-> bodyPresent,
     bodyChildren |-> bodyChildren, mounted |-> mounted, created |-> created,
     console |-> console, events |-> <<>>, threw |-> FALSE]

Event(kind, id) == [kind |-> kind, id |-> id]

Range(s) == { s[i] : i \in 1..Len(s) }

\* element.parentNode for a loader container: document.body or null.
parentNode(el, children) == IF el \in Range(children) THEN Body ELSE Null

\* parent.removeChild(el)
removeChild(children, el) == SelectSeq(children, LAMBDA x : x # el)

\* root.unmount()
unmount(roots, id) == { r \in roots : r.id # id }

(* ---------------------------- destroy ---------------------------------- *)

\* A teardown that detaches the container before it unmounts the root.
teardown_removeFirst(s) ==
    LET s1 == IF s.widgetContainer # Null
                 /\ parentNode(s.widgetContainer, s.bodyChildren) # Null
              THEN [s EXCEPT !.bodyChildren = removeChild(@, s.widgetContainer),
                             !.events = Append(@, Event("removeChild", s.widgetContainer)),
                             !.widgetContainer = Null]
              ELSE s
        s2 == IF s1.widgetRoot # Null
              THEN [s1 EXCEPT !.mounted = unmount(@, s1.widgetRoot),
                              !.events = Append(@, Event("unmount", s1.widgetRoot)),
                              !.widgetRoot = Null]
              ELSE s1
    IN  [s2 EXCEPT !.shadowRoot = Null]

\* A teardown that unmounts and clears the handles but leaves the container
\* in the document.
teardown_noRemove(s) ==
    LET s1 == IF s.widgetRoot # Null
              THEN [s EXCEPT !.mounted = unmount(@, s.widgetRoot),
                             !.events = Append(@, Event("unmount", s.widgetRoot)),
                             !.widgetRoot = Null]
              ELSE s
    IN  [s1 EXCEPT !.widgetContainer = Null, !.shadowRoot = Null]

\* Lines 109-119 of destroy: unmount, detach, clear.
teardown(s) ==
    LET s1 == IF s.widgetRoot # Null
              THEN [s EXCEPT !.mounted = unmount(@, s.widgetRoot),
                             !.events = Append(@, Event("unmount", s.widgetRoot)),
                             !.widgetRoot = Null]
              ELSE s
        s2 == IF s1.widgetContainer # Null
                 /\ parentNode(s1.widgetContainer, s1.bodyChildren) # Null
              THEN [s1 EXCEPT !.bodyChildren = removeChild(@, s1.widgetContainer),
                              !.events = Append(@, Event("removeChild", s1.widgetContainer)),
                              !.widgetContainer = Null]
              ELSE s1
    IN  [s2 EXCEPT !.shadowRoot = Null]

\* A destroy that reports, on the console, that it found nothing to destroy.
destroy_warnWhenIdle(s) ==
    IF s.widgetRoot = Null /\ s.widgetContainer = Null
    THEN [s EXCEPT !.console = Append(@, [level |-> "warn", botId |-> Absent]),
                   !.events = Append(@, Event("console.warn", Null))]
    ELSE teardown(s)

destroy(s) ==
    IF s.widgetRoot = Null /\ s.widgetContainer = Null
    THEN \* Nothing to destroy
         s
    ELSE teardown(s)

(* ---------------------------- init ------------------------------------- *)

\* A validation that forgets the apiKey.
validConfig_botIdOnly(config) == Truthy(config.botId)

\* The validation of init: botId and apiKey are both truthy.
validConfig(config) == Truthy(config.botId) /\ Truthy(config.apiKey)

\* Props that lose the elementId on the way to the component.
renderConfig_dropElementId(config) == [config EXCEPT !.elementId = Absent]

\* The props the chat component is rendered with: <ChatWidget config={config} />.
renderConfig(config) == config

\* Lines 46-97 of init: create the container, attach it, build the shadow
\* tree, render the component, trace.
mount(d, config) ==
    LET k == d.created + 1
        c == [d EXCEPT !.created = k,
                       !.widgetContainer = k,
                       !.events = Append(@, Event("createElement", k))]
    IN  IF ~c.bodyPresent
        THEN \* document.body is null: appendChild throws a TypeError
             [c EXCEPT !.threw = TRUE]
        ELSE [c EXCEPT !.bodyChildren = Append(@, k),
                       !.shadowRoot = k,
                       !.widgetRoot = k,
                       !.mounted = @ \cup {[id |-> k, config |-> renderConfig(config)]},
                       !.console = Append(@, [level |-> "log", botId |-> config.botId]),
                       !.events = @ \o << Event("appendChild", k), Event("attachShadow", k),
                                          Event("createRoot", k), Event("render", k),
                                          Event("console.log", Null) >>]

\* The branch of init taken when validation fails: console.error, return.
reject(s) ==
    [s EXCEPT !.console = Append(@, [level |-> "error", botId |-> Absent]),
              !.events = Append(@, Event("console.error", Null))]

\* An init that mounts without cleaning up the existing widget.
init_noTeardown(s, config) ==
    IF ~config.defined
    THEN [s EXCEPT !.threw = TRUE]
    ELSE IF ~validConfig(config)
    THEN reject(s)
    ELSE mount(s, config)

\* An init that cleans up the existing widget before it validates.
init_teardownFirst(s, config) ==
    IF ~config.defined
    THEN [destroy(s) EXCEPT !.threw = TRUE]
    ELSE IF ~validConfig(config)
    THEN reject(destroy(s))
    ELSE mount(destroy(s), config)

\* An init that, given an elementId, mounts into the host page's element
\* instead of creating and appending a container of its own.
init_honoursElementId(s, config) ==
    IF ~config.defined
    THEN [s EXCEPT !.threw = TRUE]
    ELSE IF ~validConfig(config)
    THEN reject(s)
    ELSE IF config.elementId # Absent /\ \E i \in DOMAIN s.bodyChildren : s.bodyChildren[i] < Null
    THEN LET d == destroy(s)
             el == d.bodyChildren[CHOOSE i \in DOMAIN d.bodyChildren : d.bodyChildren[i] < Null]
             k == d.created + 1
         IN  [d EXCEPT !.created = k,
                       !.widgetContainer = el,
                       !.shadowRoot = el,
                       !.widgetRoot = k,
                       !.mounted = @ \cup {[id |-> k, config |-> renderConfig(config)]},
                       !.console = Append(@, [level |-> "log", botId |-> config.botId]),
                       !.events = @ \o << Event("attachShadow", el), Event("createRoot", k),
                                          Event("render", k), Event("console.log", Null) >>]
    ELSE mount(destroy(s), config)

init(s, config) ==
    IF ~config.defined
    THEN \* reading config.botId of undefined throws a TypeError
         [s EXCEPT !.threw = TRUE]
    ELSE IF ~validConfig(config)
    THEN reject(s)
    ELSE mount(destroy(s), config)

(* ---------------------------- auto-init -------------------------------- *)

\* What querySelector returns when no element matches (null): no matching
\* element has an absent data-myndulon-bot-id, so this record is none of them.
NoElement == [botId |-> Absent, apiKey |-> Absent, apiUrl |-> Absent]

\* A selector that skips tagged scripts it cannot use and returns the first
\* one carrying a non-empty bot id and an api key.
querySelector_firstUsable(els) ==
    IF \E i \in 1..Len(els) : Truthy(els[i].botId) /\ Truthy(els[i].apiKey)
    THEN LET i == CHOOSE j \in 1..Len(els) :
                      /\ Truthy(els[j].botId) /\ Truthy(els[j].apiKey)
                      /\ \A h \in 1..(j - 1) : ~(Truthy(els[h].botId) /\ Truthy(els[h].apiKey))
         IN  els[i]
    ELSE IF \E i \in 1..Len(els) : els[i].botId # Absent
    THEN els[CHOOSE j \in 1..Len(els) : els[j].botId # Absent]
    ELSE NoElement

\* document.querySelector('script[data-myndulon-bot-id]'): the first element
\* in document order that carries the attribute, or null.
querySelector(els) ==
    IF \E i \in 1..Len(els) : els[i].botId # Absent
    THEN LET i == CHOOSE j \in 1..Len(els) :
                      /\ els[j].botId # Absent
                      /\ \A h \in 1..(j - 1) : els[h].botId = Absent
         IN  els[i]
    ELSE NoElement

\* getAttribute(...) || '': a missing attribute becomes the empty string.
orUndefined_orEmpty(v) == IF Truthy(v) THEN v ELSE ""

\* getAttribute(...) || undefined
orUndefined(v) == IF Truthy(v) THEN v ELSE Absent

\* The config the listener assembles from the tagged script's attributes.
tagConfig(scriptTag) ==
    [defined |-> TRUE, botId |-> scriptTag.botId, apiKey |-> scriptTag.apiKey,
     apiUrl |-> orUndefined(scriptTag.apiUrl), elementId |-> Absent]

\* A listener that calls init as soon as the tag carries a bot id.
autoInit_botIdOnly(s, els) ==
    LET scriptTag == querySelector(els)
    IN  IF scriptTag # NoElement /\ Truthy(scriptTag.botId)
        THEN [state |-> init(s, tagConfig(scriptTag)), initCalls |-> 1,
              config |-> tagConfig(scriptTag)]
        ELSE [state |-> s, initCalls |-> 0, config |-> NoConfig]

\* A listener that leaves an instance the host page already mounted alone.
autoInit_skipIfMounted(s, els) ==
    LET scriptTag == querySelector(els)
    IN  IF scriptTag # NoElement /\ Truthy(scriptTag.botId) /\ Truthy(scriptTag.apiKey)
           /\ s.widgetRoot = Null
        THEN [state |-> init(s, tagConfig(scriptTag)), initCalls |-> 1,
              config |-> tagConfig(scriptTag)]
        ELSE [state |-> s, initCalls |-> 0, config |-> NoConfig]

\* The DOMContentLoaded listener.  initCalls counts its calls to init.
autoInit(s, els) ==
    LET scriptTag == querySelector(els)
    IN  IF scriptTag # NoElement /\ Truthy(scriptTag.botId) /\ Truthy(scriptTag.apiKey)
        THEN [state |-> init(s, tagConfig(scriptTag)), initCalls |-> 1,
              config |-> tagConfig(scriptTag)]
        ELSE [state |-> s, initCalls |-> 0, config |-> NoConfig]

(* ---------------------------- dashboard -------------------------------- *)

\* window.location.origin of the dashboard.
baseUrl == "https://dashboard"

\* The bots of the admin's account (Bot of lib/api.ts: the fields that carry
\* an identifier, a credential or a URL).
Bots ==
    [id : {"bot-1"}, api_key : {"key-1"}, ai_base_url : {Absent, "https://ai"}]
        \cup
    [id : {"bot-2"}, api_key : {"key-2"}, ai_base_url : {Absent, "https://ai"}]

\* selectedBot = null.
NoBot == [id |-> Absent, api_key |-> Absent, ai_base_url |-> Absent]

\* No embed code (the dialog renders null; nothing copied yet).
NoSnippet == [script |-> Absent, config |-> NoConfig]

\* An embed code whose apiUrl is the bot's own ai_base_url.
embedCode_botBaseUrl(bot) ==
    [script |-> baseUrl,
     config |-> [defined |-> TRUE, botId |-> bot.id, apiKey |-> bot.api_key,
                 apiUrl |-> bot.ai_base_url, elementId |-> "myndulon-widget"]]

\* The embed code of EmbedCodeDialog: a <div>, the loader <script src>, and
\* an inline script calling MyndulonWidget.init with this object literal.
embedCode(bot) ==
    [script |-> baseUrl,
     config |-> [defined |-> TRUE, botId |-> bot.id, apiKey |-> bot.api_key,
                 apiUrl |-> baseUrl, elementId |-> "myndulon-widget"]]

\* What EmbedCodeDialog shows for the selected bot.
EmbedCodeDialog(bot) == IF bot = NoBot THEN NoSnippet ELSE embedCode(bot)

(* ---------------------------- lib/api.ts ------------------------------- *)

\* The status codes the backend answers with.
Statuses == {200, 401, 404, 500}

\* The reason phrase of a status line.
ReasonPhrase(status) ==
    CASE status = 200 -> "OK"
      [] status = 401 -> "Unauthorized"
      [] status = 404 -> "Not Found"
      [] OTHER -> "Internal Server Error"

\* The bodies a response carries: not JSON, the JSON value null, an object
\* without detail, with an empty detail, with a detail message.
Bodies == {"<html>", "null", "{}", "{detail:''}", "{detail:'Bot not found'}"}

\* What `await fetch(...)` produces: a Response (statusText is the reason
\* phrase, or empty over HTTP/2), or a rejection with a TypeError when the
\* network fails.
Nets ==
    { r \in [kind : {"response"}, status : Statuses,
             statusText : {"", "OK", "Unauthorized", "Not Found", "Internal Server Error"},
             body : Bodies] : r.statusText \in {"", ReasonPhrase(r.status)} }
        \cup
    { [kind |-> "networkError", status |-> Null, statusText |-> "", body |-> ""] }

\* No fetch has settled yet.
NoNet == [kind |-> "none", status |-> Null, statusText |-> "", body |-> ""]

\* response.ok
ok(response) == response.status \in 200..299

\* response.json(): rejects when the body is not JSON, else resolves with the
\* parsed value (null, or an object whose detail property may be missing).
json(body) ==
    CASE body = "<html>" -> [rejected |-> TRUE, null |-> FALSE, detail |-> Absent]
      [] body = "null" -> [rejected |-> FALSE, null |-> TRUE, detail |-> Absent]
      [] body = "{}" -> [rejected |-> FALSE, null |-> FALSE, detail |-> Absent]
      [] body = "{detail:''}" -> [rejected |-> FALSE, null |-> FALSE, detail |-> ""]
      [] OTHER -> [rejected |-> FALSE, null |-> FALSE, detail |-> "Bot not found"]

\* No error (the call returned).
NoError == [name |-> Absent, message |-> Absent, status |-> Null]

\* new ApiError(message, status, data)
ApiError(message, status) == [name |-> "ApiError", message |-> message, status |-> status]

\* The TypeError the runtime throws (a failed fetch, a property read of null).
TypeError(message) == [name |-> "TypeError", message |-> message, status |-> Null]

\* No call has settled yet.
NoResult == [kind |-> "none", value |-> FALSE, response |-> NoNet, error |-> NoError]

\* `return v` and `throw e` of an async function.
Return(value, response) ==
    [kind |-> "return", value |-> value, response |-> response, error |-> NoError]

Throw(error) == [kind |-> "throw", value |-> FALSE, response |-> NoNet, error |-> error]

\* fetchWithAuth, given what its fetch produced.
fetchWithAuth(net) ==
    IF net.kind = "networkError"
    THEN Throw(TypeError("Failed to fetch"))
    ELSE IF ~ok(net)
    THEN LET parsed == json(net.body)
             \* .catch(() => ({}))
             data == IF parsed.rejected
                     THEN [rejected |-> FALSE, null |-> FALSE, detail |-> Absent]
                     ELSE parsed
         IN  IF data.null
             THEN \* data.detail of null
                  Throw(TypeError("Cannot read properties of null"))
             ELSE Throw(ApiError(IF Truthy(data.detail) THEN data.detail ELSE net.statusText,
                                 net.status))
    ELSE Return(TRUE, net)

\* A checkAuth that takes every HTTP error for "not signed in".
checkAuth_anyApiError(net) ==
    LET r == fetchWithAuth(net)
    IN  IF r.kind = "return"
        THEN Return(TRUE, NoNet)
        ELSE IF r.error.name = "ApiError"
        THEN Return(FALSE, NoNet)
        ELSE Throw(r.error)

\* authApi.checkAuth, given what the fetch of the bots request produced.
checkAuth(net) ==
    LET r == fetchWithAuth(net)
    IN  IF r.kind = "return"
        THEN Return(TRUE, NoNet)
        ELSE IF r.error.name = "ApiError" /\ r.error.status = 401
        THEN Return(FALSE, NoNet)
        ELSE Throw(r.error)

\* The API client before any call.
ApiClient ==
    [call |-> "none", pending |-> FALSE, net |-> NoNet, fetched |-> NoResult,
     authed |-> NoResult]

(* ---------------------------- pages ------------------------------------ *)

\* LoginPage as mounted: the useState initial values, at the route /login.
LoginPage ==
    [username |-> "", password |-> "", error |-> Absent, isLoading |-> FALSE,
     pending |-> FALSE, location |-> "/login"]

\* What the admin types into the two inputs.
Usernames == {"", "admin", "guest"}

Passwords == {"", "secret", "wrong"}

\* The result of a handler: the page's new state and the calls it made, in order.
Handled(page, events) == [page |-> page, events |-> events]

\* A handleSubmit that leaves the previous error on screen.
handleSubmit_keepError(p) ==
    Handled([p EXCEPT !.isLoading = TRUE, !.pending = TRUE],
            << Event("setIsLoading", 1), Event("login", Null) >>)

\* LoginPage.handleSubmit up to its await: setError(null), setIsLoading(true),
\* login(username, password).
handleSubmit(p) ==
    Handled([p EXCEPT !.error = Absent, !.isLoading = TRUE, !.pending = TRUE],
            << Event("setError", Null), Event("setIsLoading", 1), Event("login", Null) >>)

\* handleSubmit after login resolved: navigate('/dashboard').
loginResolved(p) ==
    Handled([p EXCEPT !.pending = FALSE, !.location = "/dashboard"],
            << Event("navigate", Null) >>)

\* handleSubmit after login rejected: the catch block.
loginRejected(p) ==
    Handled([p EXCEPT !.pending = FALSE, !.error = "Invalid username or password",
                      !.isLoading = FALSE],
            << Event("setError", 1), Event("setIsLoading", Null) >>)

\* The ids of the bots of the admin's account, as botApi.list returns them.
BotIds == {1, 2}

\* BotsPage as mounted, the list loaded: no dialog, no bot selected (null), no
\* delete mutation in flight; `handled` remembers the bot last passed to
\* handleDelete.
BotsPage ==
    [bots |-> BotIds, deleteDialogOpen |-> FALSE, botToDelete |-> Null,
     inFlight |-> <<>>, handled |-> Null]

\* BotsPage.handleDelete(bot)
handleDelete(p, bot) ==
    Handled([p EXCEPT !.botToDelete = bot, !.deleteDialogOpen = TRUE, !.handled = bot],
            << Event("setBotToDelete", bot), Event("setDeleteDialogOpen", 1) >>)

\* BotsPage.confirmDelete(): deleteMutation.mutate(botToDelete.id) calls
\* botApi.delete with that id.
confirmDelete(p) ==
    IF p.botToDelete # Null
    THEN Handled([p EXCEPT !.inFlight = Append(@, p.botToDelete)],
                 << Event("botApi.delete", p.botToDelete) >>)
    ELSE Handled(p, <<>>)

\* deleteMutation.onSuccess, for the delete of bot `id` (the invalidated
\* query refetches the list without it).
deleteSucceeded(p, id) ==
    Handled([p EXCEPT !.bots = @ \ {id}, !.deleteDialogOpen = FALSE, !.botToDelete = Null],
            << Event("invalidateQueries", Null), Event("setDeleteDialogOpen", Null),
               Event("setBotToDelete", Null) >>)

\* A mutation that closes the dialog and clears the bot when it settles,
\* also on failure.
deleteFailed_onSettled(p, id) ==
    Handled([p EXCEPT !.deleteDialogOpen = FALSE, !.botToDelete = Null],
            << Event("setDeleteDialogOpen", Null), Event("setBotToDelete", Null) >>)

\* The delete of bot `id` rejected: deleteMutation has no onError.
deleteFailed(p, id) == Handled(p, <<>>)

\* The sequence without its i-th element.
RemoveAt(seq, i) == SubSeq(seq, 1, i - 1) \o SubSeq(seq, i + 1, Len(seq))

\* The bots botApi.create resolves with: the training source given in full,
\* in part (an empty or missing source_content) or not at all.
NewBots == [id : {7}, source_type : {Absent, "url"}, source_content : {Absent, "", "https://docs"}]

\* No bot created yet.
NoNewBot == [id |-> Null, source_type |-> Absent, source_content |-> Absent]

\* What botApi.ingest resolves with: response.json() of the answer, an object
\* with a message or the JSON value null.
IngestResults == {[null |-> FALSE, message |-> "Training started"],
                  [null |-> TRUE, message |-> Absent]}

\* The messages of the errors botApi.ingest rejects with.
IngestErrors == {"Bot not found", "Failed to fetch"}

\* A training message: `${prefix}${text}`; trainingMessage = null is NoMessage.
Message(prefix, text) == [prefix |-> prefix, text |-> text]

NoMessage == Message(Absent, Absent)

\* BotFormPage as mounted in create mode (no id in the route): nothing in
\* flight.  phase is the point the create flow has reached; upload and ingest
\* remember how the flow's avatar upload and training request ended.
BotFormPage ==
    [selectedAvatarFile |-> FALSE, phase |-> "form", newBot |-> NoNewBot,
     isTraining |-> FALSE, trainingMessage |-> NoMessage, timer |-> FALSE,
     upload |-> "none", ingest |-> "none", location |-> "/dashboard/bots/new"]

\* trainBot(botId) up to its await: setIsTraining(true),
\* setTrainingMessage(t('training')), botApi.ingest(botId).
trainBot(p, events) ==
    Handled([p EXCEPT !.isTraining = TRUE, !.trainingMessage = Message("", "training"),
                      !.phase = "training"],
            events \o << Event("setIsTraining", 1), Event("setTrainingMessage", Null),
                         Event("botApi.ingest", p.newBot.id) >>)

\* A flow that trains every bot it has created.
afterUpload_alwaysTrain(p, events) == trainBot(p, events)

\* createMutation.onSuccess after the avatar step: train the bot if it has a
\* training source, else navigate('/dashboard').
afterUpload(p, events) ==
    IF Truthy(p.newBot.source_type) /\ Truthy(p.newBot.source_content)
    THEN trainBot(p, events)
    ELSE Handled([p EXCEPT !.phase = "done", !.location = "/dashboard"],
                 Append(events, Event("navigate", Null)))

\* createMutation.onSuccess(newBot) up to its first await.
onSuccess(p, newBot) ==
    LET q == [p EXCEPT !.newBot = newBot]
    IN  IF q.selectedAvatarFile
        THEN Handled([q EXCEPT !.phase = "uploading"],
                     << Event("invalidateQueries", Null), Event("botApi.uploadAvatar", newBot.id) >>)
        ELSE afterUpload(q, << Event("invalidateQueries", Null) >>)

\* trainBot after botApi.ingest resolved with `result`: the message, the
\* two-second timer to navigate, finally setIsTraining(false).  Reading
\* result.message of null throws into the catch block.
ingestResolved(p, result) ==
    IF result.null
    THEN Handled([p EXCEPT !.trainingMessage =
                               Message("Training failed: ", "Cannot read properties of null"),
                           !.isTraining = FALSE, !.phase = "trained", !.ingest = "resolved"],
                 << Event("setTrainingMessage", Null), Event("setIsTraining", Null) >>)
    ELSE Handled([p EXCEPT !.trainingMessage = Message("", result.message),
                           !.timer = TRUE,
                           !.isTraining = FALSE, !.phase = "trained", !.ingest = "resolved"],
                 << Event("setTrainingMessage", Null), Event("setTimeout", Null),
                    Event("setIsTraining", Null) >>)

\* A trainBot without its finally block.
ingestRejected_noFinally(p, message) ==
    Handled([p EXCEPT !.trainingMessage = Message("Training failed: ", message),
                      !.phase = "trained", !.ingest = "rejected"],
            << Event("setTrainingMessage", Null) >>)

\* trainBot after botApi.ingest rejected with an error carrying `message`.
ingestRejected(p, message) ==
    Handled([p EXCEPT !.trainingMessage = Message("Training failed: ", message),
                      !.isTraining = FALSE, !.phase = "trained", !.ingest = "rejected"],
            << Event("setTrainingMessage", Null), Event("setIsTraining", Null) >>)

\* The config SettingsPage starts with (useState), by provider and base URL.
DefaultConfig ==
    [ai_provider |-> "local", ollama_base_url |-> "http://host.docker.internal:11434"]

\* The providers of the radio group.
Providers == {"openai", "local", "custom", "huggingface"}

\* The bodies GET /api/admin/config answers with: not JSON, or a stored config.
ConfigBodies == {"<html>", "{ai_provider:'openai'}", "{ai_provider:'local'}"}

\* What the fetch of the config (GET or PUT) produces: a Response, or a
\* rejection when the network fails.
ConfigNets ==
    [kind : {"response"}, status : {200, 500}, statusText : {""}, body : ConfigBodies]
        \cup
    { [kind |-> "networkError", status |-> Null, statusText |-> "", body |-> ""] }

\* res.json() of a config answer.
configJson(body) ==
    CASE body = "<html>" -> [rejected |-> TRUE, data |-> DefaultConfig]
      [] body = "{ai_provider:'openai'}"
           -> [rejected |-> FALSE,
               data |-> [ai_provider |-> "openai", ollama_base_url |-> Absent]]
      [] OTHER
           -> [rejected |-> FALSE,
               data |-> [ai_provider |-> "local", ollama_base_url |-> "http://ollama:11434"]]

\* SettingsPage as mounted: isLoading, and the useEffect has called
\* fetchConfig, whose fetch is in flight.
SettingsPage ==
    [config |-> DefaultConfig, isLoading |-> TRUE, isSaving |-> FALSE,
     fetching |-> TRUE, saving |-> FALSE]

\* fetchConfig after its fetch settled: setConfig(data) for an ok response,
\* the error toast when fetch or res.json() rejected, finally
\* setIsLoading(false).
fetchConfig(p, net) ==
    IF net.kind = "networkError"
    THEN Handled([p EXCEPT !.isLoading = FALSE, !.fetching = FALSE],
                 << Event("toast", Null), Event("setIsLoading", Null) >>)
    ELSE IF ok(net)
    THEN IF configJson(net.body).rejected
         THEN Handled([p EXCEPT !.isLoading = FALSE, !.fetching = FALSE],
                      << Event("toast", Null), Event("setIsLoading", Null) >>)
         ELSE Handled([p EXCEPT !.config = configJson(net.body).data,
                                !.isLoading = FALSE, !.fetching = FALSE],
                      << Event("setConfig", Null), Event("setIsLoading", Null) >>)
    ELSE Handled([p EXCEPT !.isLoading = FALSE, !.fetching = FALSE],
                 << Event("setIsLoading", Null) >>)

\* handleSave up to its await: setIsSaving(true), the PUT of the config.
handleSave(p) ==
    Handled([p EXCEPT !.isSaving = TRUE, !.saving = TRUE],
            << Event("setIsSaving", 1), Event("fetch", Null) >>)

\* A handleSave that throws on a non-ok answer without catching it.
saveSettled_noCatch(p, net) ==
    IF net.kind = "response" /\ ok(net)
    THEN Handled([p EXCEPT !.isSaving = FALSE, !.saving = FALSE],
                 << Event("toast", 1), Event("setIsSaving", Null) >>)
    ELSE Handled([p EXCEPT !.isSaving = FALSE, !.saving = FALSE],
                 << Event("setIsSaving", Null) >>)

\* handleSave after its fetch settled: the success toast for an ok response,
\* the failure toast otherwise (toast id 1: saved, 2: failed), finally
\* setIsSaving(false).
saveSettled(p, net) ==
    IF net.kind = "response" /\ ok(net)
    THEN Handled([p EXCEPT !.isSaving = FALSE, !.saving = FALSE],
                 << Event("toast", 1), Event("setIsSaving", Null) >>)
    ELSE Handled([p EXCEPT !.isSaving = FALSE, !.saving = FALSE],
                 << Event("toast", 2), Event("setIsSaving", Null) >>)

(* ---------------------------- actions ---------------------------------- *)

\* Store the outcome of an operation into the variables.
Commit(s, op, config, initCalls) ==
    /\ widgetRoot' = s.widgetRoot
    /\ widgetContainer' = s.widgetContainer
    /\ shadowRoot' = s.shadowRoot
    /\ bodyChildren' = s.bodyChildren
    /\ mounted' = s.mounted
    /\ created' = s.created
    /\ console' = s.console
    /\ lastOp' = [op |-> op, config |-> config, initCalls |-> initCalls,
                  threw |-> s.threw, events |-> s.events]

HostNodes(n) == [i \in 1..n |-> Body - i]

Init ==
    /\ widgetRoot = Null
    /\ widgetContainer = Null
    /\ shadowRoot = Null
    /\ mounted = {}
    /\ created = 0
    /\ console = <<>>
    /\ calls = 0
    /\ autoRuns = 0
    /\ dashboard = [selectedBot |-> NoBot, codeDialogOpen |-> FALSE, copied |-> FALSE]
    /\ clipboard = NoSnippet
    /\ api = ApiClient
    /\ loginPage = LoginPage
    /\ botsPage = BotsPage
    /\ botForm = BotFormPage
    /\ settings = SettingsPage
    /\ requests = 0
    /\ scripts \in ScriptLists
    \* The loader script is evaluated either while the document is still being
    \* parsed (in <head>, before <body> exists, or inside <body>) or after
    \* DOMContentLoaded has already been dispatched (async / injected script).
    /\ domReady \in BOOLEAN
    /\ bodyPresent \in BOOLEAN
    /\ domReady => bodyPresent
    /\ \E n \in 0..MaxHostNodes : bodyChildren = IF bodyPresent THEN HostNodes(n) ELSE <<>>
    \* document.addEventListener('DOMContentLoaded', ...) at evaluation: the
    \* listener runs only if the event is dispatched afterwards.
    /\ listening = ~domReady
    /\ lastOp = [op |-> "load", config |-> NoConfig, initCalls |-> 0, threw |-> FALSE,
                 events |-> <<>>]

\* window.MyndulonWidget.init(config), called by the host page.
CallInit ==
    /\ calls < MaxCalls
    /\ \E config \in WidgetConfig : Commit(init(Current, config), "init", config, 1)
    /\ calls' = calls + 1
    /\ UNCHANGED << bodyPresent, scripts, domReady, listening, autoRuns, dashboard, clipboard, pages >>

\* window.MyndulonWidget.destroy(), called by the host page.
CallDestroy ==
    /\ calls < MaxCalls
    /\ Commit(destroy(Current), "destroy", NoConfig, 0)
    /\ calls' = calls + 1
    /\ UNCHANGED << bodyPresent, scripts, domReady, listening, autoRuns, dashboard, clipboard, pages >>

\* The browser dispatches DOMContentLoaded (once, after <body> is parsed) and
\* runs the loader's listener if it was registered in time.
DOMContentLoaded ==
    /\ ~domReady
    /\ bodyPresent
    /\ domReady' = TRUE
    /\ listening' = FALSE
    /\ autoRuns' = IF listening THEN autoRuns + 1 ELSE autoRuns
    /\ IF listening
       THEN LET r == autoInit(Current, scripts)
            IN  Commit(r.state, "auto", r.config, r.initCalls)
       ELSE Commit(Current, "event", NoConfig, 0)
    /\ UNCHANGED << bodyPresent, scripts, calls, dashboard, clipboard, pages >>

\* The parser reaches <body>: document.body becomes non-null.
ParseBody ==
    /\ ~bodyPresent
    /\ bodyPresent' = TRUE
    /\ \E n \in 0..MaxHostNodes : bodyChildren' = HostNodes(n)
    /\ lastOp' = [op |-> "parse", config |-> NoConfig, initCalls |-> 0, threw |-> FALSE,
                  events |-> <<>>]
    /\ UNCHANGED << widgetRoot, widgetContainer, shadowRoot, mounted, created, console,
                    scripts, domReady, listening, autoRuns, calls, dashboard, clipboard, pages >>

\* The host page detaches a loader container from the document itself
\* (document.getElementById('myndulon-widget-root').remove()).
HostRemoveContainer ==
    /\ \E el \in Range(bodyChildren) :
          /\ el > 0
          /\ bodyChildren' = removeChild(bodyChildren, el)
    /\ lastOp' = [op |-> "hostRemove", config |-> NoConfig, initCalls |-> 0, threw |-> FALSE,
                  events |-> <<>>]
    /\ UNCHANGED << widgetRoot, widgetContainer, shadowRoot, bodyPresent, mounted, created,
                    console, scripts, domReady, listening, autoRuns, calls, dashboard, clipboard, pages >>

Next ==
    \/ CallInit
    \/ CallDestroy
    \/ DOMContentLoaded
    \/ ParseBody
    \/ HostRemoveContainer

Spec == Init /\ [][Next]_vars

\* A step of the dashboard leaves the host page alone.
DashboardStep ==
    /\ lastOp' = [op |-> "dashboard", config |-> NoConfig, initCalls |-> 0, threw |-> FALSE,
                  events |-> <<>>]
    /\ UNCHANGED << widgetRoot, widgetContainer, shadowRoot, bodyPresent, bodyChildren,
                    mounted, created, console, scripts, domReady, listening, autoRuns,
                    calls, pages >>

\* WidgetsPage.openCodeDialog(bot)
openCodeDialog ==
    /\ \E bot \in Bots :
          dashboard' = [dashboard EXCEPT !.selectedBot = bot, !.codeDialogOpen = TRUE]
    /\ UNCHANGED clipboard
    /\ DashboardStep

\* EmbedCodeDialog.copyToClipboard
copyToClipboard ==
    /\ dashboard.codeDialogOpen
    /\ dashboard.selectedBot # NoBot
    /\ clipboard' = EmbedCodeDialog(dashboard.selectedBot)
    /\ dashboard' = [dashboard EXCEPT !.copied = TRUE]
    /\ DashboardStep

\* The setTimeout of copyToClipboard: setCopied(false) after two seconds.
copiedTimeout ==
    /\ dashboard.copied
    /\ dashboard' = [dashboard EXCEPT !.copied = FALSE]
    /\ UNCHANGED clipboard
    /\ DashboardStep

\* The host page runs the pasted embed code: its <div> is in <body>, the
\* loader script has been evaluated, the inline script calls init.
RunSnippet ==
    /\ clipboard # NoSnippet
    /\ bodyPresent
    /\ calls < MaxCalls
    /\ Commit(init(Current, clipboard.config), "snippet", clipboard.config, 1)
    /\ calls' = calls + 1
    /\ UNCHANGED << bodyPresent, scripts, domReady, listening, autoRuns, dashboard, clipboard, pages >>

NextEmbed ==
    \/ openCodeDialog
    \/ copyToClipboard
    \/ copiedTimeout
    \/ RunSnippet
    \/ CallDestroy
    \/ DOMContentLoaded
    \/ HostRemoveContainer

\* The dashboard and a host page that embeds the copied code.
\* The host page of the embed code: the code's <div> puts it inside <body>,
\* and the page carries no tagged script or one complete tag.
InitEmbed ==
    /\ Init
    /\ bodyPresent
    /\ Len(scripts) <= 1
    /\ \A i \in DOMAIN scripts : Truthy(scripts[i].botId) /\ Truthy(scripts[i].apiKey)

SpecEmbed == InitEmbed /\ [][NextEmbed]_vars

\* The loader evaluated where document.body already exists (a script inside
\* <body>, or one that runs after parsing).
InitBody == Init /\ bodyPresent

NextBody ==
    \/ CallInit
    \/ CallDestroy
    \/ DOMContentLoaded
    \/ HostRemoveContainer

SpecBody == InitBody /\ [][NextBody]_vars

(* ---------------------------- dashboard pages -------------------------- *)

\* An operation of the admin dashboard: the widget loader of some host page
\* and the embed-code dialog are left alone.
PageStep(op, events) ==
    /\ lastOp' = [op |-> op, config |-> NoConfig, initCalls |-> 0, threw |-> FALSE,
                  events |-> events]
    /\ UNCHANGED << widgetRoot, widgetContainer, shadowRoot, bodyPresent, bodyChildren,
                    mounted, created, console, scripts, domReady, listening, autoRuns,
                    calls, dashboard, clipboard >>

\* The dashboard is a page of its own: fully loaded, no widget script.
InitDashboard ==
    /\ Init
    /\ bodyPresent
    /\ domReady
    /\ scripts = <<>>
    /\ bodyChildren = <<>>

\* A caller starts fetchWithAuth(url, options): the fetch is in flight.
CallFetchWithAuth ==
    /\ ~api.pending
    /\ requests < MaxRequests
    /\ api' = [ApiClient EXCEPT !.call = "fetchWithAuth", !.pending = TRUE]
    /\ requests' = requests + 1
    /\ PageStep("fetchWithAuth", <<>>)
    /\ UNCHANGED << loginPage, botsPage, botForm, settings >>

\* A caller starts authApi.checkAuth(): its bots request is in flight.
CallCheckAuth ==
    /\ ~api.pending
    /\ requests < MaxRequests
    /\ api' = [ApiClient EXCEPT !.call = "checkAuth", !.pending = TRUE]
    /\ requests' = requests + 1
    /\ PageStep("checkAuth", <<>>)
    /\ UNCHANGED << loginPage, botsPage, botForm, settings >>

\* The fetch settles and the call in flight runs to its end.
FetchSettles ==
    /\ api.pending
    /\ \E net \in Nets :
          api' = [api EXCEPT !.pending = FALSE,
                             !.net = net,
                             !.fetched = fetchWithAuth(net),
                             !.authed = IF api.call = "checkAuth"
                                        THEN checkAuth(net)
                                        ELSE NoResult]
    /\ PageStep("settle", <<>>)
    /\ UNCHANGED << loginPage, botsPage, botForm, settings, requests >>

NextApi ==
    \/ CallFetchWithAuth
    \/ CallCheckAuth
    \/ FetchSettles

SpecApi == InitDashboard /\ [][NextApi]_vars

\* The admin types into the username input (onChange: setUsername).
setUsername ==
    /\ loginPage.location = "/login"
    /\ \E v \in Usernames : loginPage' = [loginPage EXCEPT !.username = v]
    /\ PageStep("setUsername", <<>>)
    /\ UNCHANGED << api, botsPage, botForm, settings, requests >>

\* The admin types into the password input (onChange: setPassword).
setPassword ==
    /\ loginPage.location = "/login"
    /\ \E v \in Passwords : loginPage' = [loginPage EXCEPT !.password = v]
    /\ PageStep("setPassword", <<>>)
    /\ UNCHANGED << api, botsPage, botForm, settings, requests >>

\* The form is submitted: both inputs are `required`, the submit button is
\* disabled while isLoading.
SubmitLogin ==
    /\ loginPage.location = "/login"
    /\ ~loginPage.isLoading
    /\ loginPage.username # ""
    /\ loginPage.password # ""
    /\ requests < MaxRequests
    /\ LET h == handleSubmit(loginPage)
       IN  loginPage' = h.page /\ PageStep("handleSubmit", h.events)
    /\ requests' = requests + 1
    /\ UNCHANGED << api, botsPage, botForm, settings >>

\* The login call resolves.
LoginResolves ==
    /\ loginPage.pending
    /\ LET h == loginResolved(loginPage)
       IN  loginPage' = h.page /\ PageStep("loginResolved", h.events)
    /\ UNCHANGED << api, botsPage, botForm, settings, requests >>

\* The login call rejects.
LoginRejects ==
    /\ loginPage.pending
    /\ LET h == loginRejected(loginPage)
       IN  loginPage' = h.page /\ PageStep("loginRejected", h.events)
    /\ UNCHANGED << api, botsPage, botForm, settings, requests >>

NextLogin ==
    \/ setUsername
    \/ setPassword
    \/ SubmitLogin
    \/ LoginResolves
    \/ LoginRejects

SpecLogin == InitDashboard /\ [][NextLogin]_vars

\* The admin picks Delete in a bot card's menu: onDelete={() => handleDelete(bot)}.
\* The open dialog is modal, the cards behind it cannot be clicked.
ClickDelete ==
    /\ ~botsPage.deleteDialogOpen
    /\ \E bot \in botsPage.bots :
          LET h == handleDelete(botsPage, bot)
          IN  botsPage' = h.page /\ PageStep("handleDelete", h.events)
    /\ UNCHANGED << api, loginPage, botForm, settings, requests >>

\* The admin clicks "Delete Bot" in the dialog: onClick={confirmDelete}.
\* Whether the dialog's action button also dismisses the dialog is decided by
\* the dialog component, through onOpenChange.
ClickConfirm ==
    /\ botsPage.deleteDialogOpen
    /\ requests < MaxRequests
    /\ \E dismiss \in BOOLEAN :
          LET h == confirmDelete(botsPage)
          IN  /\ botsPage' = [h.page EXCEPT !.deleteDialogOpen = IF dismiss THEN FALSE ELSE @]
              /\ PageStep("confirmDelete", h.events)
    /\ requests' = requests + 1
    /\ UNCHANGED << api, loginPage, botForm, settings >>

\* The dialog is dismissed (Cancel, Escape): onOpenChange={setDeleteDialogOpen}.
DismissDialog ==
    /\ botsPage.deleteDialogOpen
    /\ botsPage' = [botsPage EXCEPT !.deleteDialogOpen = FALSE]
    /\ PageStep("onOpenChange", << Event("setDeleteDialogOpen", Null) >>)
    /\ UNCHANGED << api, loginPage, botForm, settings, requests >>

\* A delete in flight resolves.
DeleteSucceeds ==
    /\ \E i \in DOMAIN botsPage.inFlight :
          LET h == deleteSucceeded(botsPage, botsPage.inFlight[i])
          IN  /\ botsPage' = [h.page EXCEPT !.inFlight = RemoveAt(@, i)]
              /\ PageStep("deleteSucceeded", h.events)
    /\ UNCHANGED << api, loginPage, botForm, settings, requests >>

\* A delete in flight rejects.
DeleteFails ==
    /\ \E i \in DOMAIN botsPage.inFlight :
          LET h == deleteFailed(botsPage, botsPage.inFlight[i])
          IN  /\ botsPage' = [h.page EXCEPT !.inFlight = RemoveAt(@, i)]
              /\ PageStep("deleteFailed", h.events)
    /\ UNCHANGED << api, loginPage, botForm, settings, requests >>

NextBots ==
    \/ ClickDelete
    \/ ClickConfirm
    \/ DismissDialog
    \/ DeleteSucceeds
    \/ DeleteFails

SpecBots == InitDashboard /\ [][NextBots]_vars

\* The admin picks an avatar file (create mode): setSelectedAvatarFile(file).
SelectAvatar ==
    /\ botForm.location = "/dashboard/bots/new"
    /\ botForm.phase = "form"
    /\ ~botForm.selectedAvatarFile
    /\ botForm' = [botForm EXCEPT !.selectedAvatarFile = TRUE]
    /\ PageStep("handleAvatarUpload", << Event("setSelectedAvatarFile", 1) >>)
    /\ UNCHANGED << api, loginPage, botsPage, settings, requests >>

\* The form is submitted in create mode: createMutation.mutate(formData).
\* The submit button is disabled while a mutation is pending or isTraining.
SubmitCreate ==
    /\ botForm.location = "/dashboard/bots/new"
    /\ botForm.phase \in {"form", "failed", "trained"}
    /\ ~botForm.isTraining
    /\ requests < MaxRequests
    /\ botForm' = [botForm EXCEPT !.phase = "creating", !.upload = "none", !.ingest = "none"]
    /\ requests' = requests + 1
    /\ PageStep("handleSubmit", << Event("botApi.create", Null) >>)
    /\ UNCHANGED << api, loginPage, botsPage, settings >>

\* botApi.create resolves with the new bot.
CreateSucceeds ==
    /\ botForm.phase = "creating"
    /\ \E newBot \in NewBots :
          LET h == onSuccess(botForm, newBot)
          IN  botForm' = h.page /\ PageStep("createSucceeded", h.events)
    /\ UNCHANGED << api, loginPage, botsPage, settings, requests >>

\* botApi.create rejects: the mutation fails, onSuccess does not run.
CreateFails ==
    /\ botForm.phase = "creating"
    /\ botForm' = [botForm EXCEPT !.phase = "failed"]
    /\ PageStep("createFailed", <<>>)
    /\ UNCHANGED << api, loginPage, botsPage, settings, requests >>

\* botApi.uploadAvatar resolves: onSuccess goes on.
UploadResolves ==
    /\ botForm.phase = "uploading"
    /\ LET h == afterUpload([botForm EXCEPT !.upload = "resolved"], <<>>)
       IN  botForm' = h.page /\ PageStep("uploadResolved", h.events)
    /\ UNCHANGED << api, loginPage, botsPage, settings, requests >>

\* botApi.uploadAvatar rejects: onSuccess rejects at its await.
UploadRejects ==
    /\ botForm.phase = "uploading"
    /\ botForm' = [botForm EXCEPT !.phase = "failed", !.upload = "rejected"]
    /\ PageStep("uploadRejected", <<>>)
    /\ UNCHANGED << api, loginPage, botsPage, settings, requests >>

\* botApi.ingest resolves.
IngestResolves ==
    /\ botForm.phase = "training"
    /\ \E result \in IngestResults :
          LET h == ingestResolved(botForm, result)
          IN  botForm' = h.page /\ PageStep("ingestResolved", h.events)
    /\ UNCHANGED << api, loginPage, botsPage, settings, requests >>

\* botApi.ingest rejects.
IngestRejects ==
    /\ botForm.phase = "training"
    /\ \E message \in IngestErrors :
          LET h == ingestRejected(botForm, message)
          IN  botForm' = h.page /\ PageStep("ingestRejected", h.events)
    /\ UNCHANGED << api, loginPage, botsPage, settings, requests >>

\* The timer of trainBot fires: navigate('/dashboard').
TimerFires ==
    /\ botForm.timer
    /\ botForm' = [botForm EXCEPT !.timer = FALSE, !.location = "/dashboard"]
    /\ PageStep("timer", << Event("navigate", Null) >>)
    /\ UNCHANGED << api, loginPage, botsPage, settings, requests >>

NextBotForm ==
    \/ SelectAvatar
    \/ SubmitCreate
    \/ CreateSucceeds
    \/ CreateFails
    \/ UploadResolves
    \/ UploadRejects
    \/ IngestResolves
    \/ IngestRejects
    \/ TimerFires

SpecBotForm == InitDashboard /\ [][NextBotForm]_vars

\* The fetch of fetchConfig settles.
FetchConfigSettles ==
    /\ settings.fetching
    /\ \E net \in ConfigNets :
          LET h == fetchConfig(settings, net)
          IN  /\ settings' = h.page
              /\ PageStep(IF net.kind = "response" /\ net.status \in 200..299
                          THEN "fetchConfig ok"
                          ELSE "fetchConfig failed", h.events)
    /\ UNCHANGED << api, loginPage, botsPage, botForm, requests >>

\* The admin picks a provider: setConfig({ ...config, ai_provider: val }).
\* The form is rendered once isLoading is false.
ChangeProvider ==
    /\ ~settings.isLoading
    /\ \E val \in Providers : settings' = [settings EXCEPT !.config.ai_provider = val]
    /\ PageStep("onValueChange", << Event("setConfig", Null) >>)
    /\ UNCHANGED << api, loginPage, botsPage, botForm, requests >>

\* The admin clicks Save: the button is rendered once isLoading is false and
\* is disabled while isSaving.
ClickSave ==
    /\ ~settings.isLoading
    /\ ~settings.isSaving
    /\ requests < MaxRequests
    /\ LET h == handleSave(settings)
       IN  settings' = h.page /\ PageStep("handleSave", h.events)
    /\ requests' = requests + 1
    /\ UNCHANGED << api, loginPage, botsPage, botForm >>

\* The fetch of handleSave settles.
SaveSettles ==
    /\ settings.saving
    /\ \E net \in ConfigNets :
          LET h == saveSettled(settings, net)
          IN  settings' = h.page /\ PageStep("saveSettled", h.events)
    /\ UNCHANGED << api, loginPage, botsPage, botForm, requests >>

NextSettings ==
    \/ FetchConfigSettles
    \/ ChangeProvider
    \/ ClickSave
    \/ SaveSettles

\* The browser settles every fetch, with a response or an error.
SpecSettings ==
    /\ InitDashboard
    /\ [][NextSettings]_vars
    /\ WF_vars(FetchConfigSettles)
    /\ WF_vars(SaveSettles)

(* ---------------------------- properties ------------------------------- *)

\* The live widget instances: mounted React roots whose container is
\* attached to the document.
LiveInstances == { r \in mounted : r.id \in Range(bodyChildren) }

\* The loader-created containers (id 'myndulon-widget-root') in the document.
LoaderContainers == { el \in Range(bodyChildren) : el > 0 }

Idle == widgetRoot = Null /\ widgetContainer = Null /\ shadowRoot = Null

Mounted == widgetRoot # Null /\ widgetContainer # Null /\ shadowRoot # Null

\* The config carries a non-empty botId and a non-empty apiKey.
HasCredentials(config) ==
    /\ config.defined
    /\ config.botId \notin {Absent, ""}
    /\ config.apiKey \notin {Absent, ""}

\* A config object whose botId or apiKey is empty or missing.
LacksCredentials(config) ==
    /\ config.defined
    /\ \/ config.botId \in {Absent, ""}
       \/ config.apiKey \in {Absent, ""}

Kinds(events) == { events[i].kind : i \in DOMAIN events }

\* C1: in every reachable state the number of live widget instances (mounted
\* React roots whose container is attached to the document) is 0 or 1.
C1_SingleInstance == Cardinality(LiveInstances) \in {0, 1}

\* An init that found an instance live, tore it down and mounted another.
C1_Witness ==
    /\ lastOp.op = "init"
    /\ "unmount" \in Kinds(lastOp.events)
    /\ Cardinality(LiveInstances) = 1
    /\ created >= 2

\* C2: after a destroy no instance is live; after an init with non-empty
\* botId and apiKey the call has returned and exactly one instance is live;
\* an init without them leaves the live instances as they were.  Hence after
\* any sequence of init and destroy calls an instance is live iff the last
\* lifecycle-affecting call was such an init.
C2_LastCallDecidesLive ==
    [][ /\ lastOp'.op = "destroy" => Cardinality(LiveInstances') = 0
        /\ (lastOp'.op = "init" /\ HasCredentials(lastOp'.config))
              => (~lastOp'.threw /\ Cardinality(LiveInstances') = 1)
        /\ (lastOp'.op = "init" /\ ~HasCredentials(lastOp'.config))
              => LiveInstances' = LiveInstances ]_vars

\* C3: init(A) immediately followed by init(B), both with valid configs,
\* leaves exactly one live instance, rendered with B; the root created for A
\* is unmounted, A's container is out of the document, and the document holds
\* exactly one loader-created container.
C3_ReinitReplaces ==
    [][ ( /\ lastOp.op = "init" /\ HasCredentials(lastOp.config)
          /\ lastOp'.op = "init" /\ HasCredentials(lastOp'.config) )
        => /\ mounted' = {[id |-> widgetRoot', config |-> lastOp'.config]}
           /\ LiveInstances' = mounted'
           /\ mounted \cap mounted' = {}
           /\ widgetContainer \notin Range(bodyChildren')
           /\ Cardinality(LoaderContainers') = 1 ]_vars

\* C4: an init whose botId or apiKey is empty or missing, called while the
\* loader is IDLE, leaves it IDLE: the three handles stay null, no element is
\* created or appended, no shadow root is attached and no React root created.
C4_InvalidInitWhenIdle ==
    [][ (lastOp'.op = "init" /\ LacksCredentials(lastOp'.config) /\ Idle)
        => /\ Idle'
           /\ UNCHANGED << bodyChildren, created, mounted >>
           /\ ~lastOp'.threw
           /\ Kinds(lastOp'.events) \cap {"createElement", "appendChild", "attachShadow",
                                          "createRoot", "render"} = {} ]_vars

\* The loader right after such a call.
C4_Witness ==
    /\ lastOp.op = "init"
    /\ LacksCredentials(lastOp.config)
    /\ lastOp.events = << Event("console.error", Null) >>
    /\ Idle
    /\ created = 0
    /\ bodyPresent

\* C5: an init whose botId or apiKey is empty or missing, called while the
\* loader is MOUNTED, leaves the existing instance untouched: same handles,
\* same document, the same root mounted with the same config, no unmount and
\* no DOM removal.
C5_InvalidInitWhenMounted ==
    [][ (lastOp'.op = "init" /\ LacksCredentials(lastOp'.config) /\ Mounted)
        => /\ UNCHANGED << widgetRoot, widgetContainer, shadowRoot, bodyChildren,
                           mounted, created >>
           /\ ~lastOp'.threw
           /\ Kinds(lastOp'.events) \cap {"unmount", "removeChild"} = {} ]_vars

\* The loader right after such a call, the instance still live.
C5_Witness ==
    /\ lastOp.op = "init"
    /\ LacksCredentials(lastOp.config)
    /\ Mounted
    /\ LiveInstances = {[id |-> widgetRoot, config |-> [defined |-> TRUE, botId |-> "b2",
                          apiKey |-> "k1", apiUrl |-> "u1", elementId |-> Absent]]}

\* C6: a destroy that directly follows a destroy ends in the IDLE state, the
\* state the first one left, and performs no unmount, no DOM removal and
\* raises no error.
C6_DestroyIdempotent ==
    [][ (lastOp.op = "destroy" /\ lastOp'.op = "destroy")
        => /\ Idle'
           /\ UNCHANGED << widgetRoot, widgetContainer, shadowRoot, bodyChildren,
                           mounted, console >>
           /\ lastOp'.events = <<>>
           /\ ~lastOp'.threw ]_vars

\* C7: destroy called when no instance is live (no React root is mounted)
\* changes nothing: document, handles and console are as before, no error.
C7_DestroyWhenNothingLive ==
    [][ (lastOp'.op = "destroy" /\ mounted = {})
        => /\ UNCHANGED << widgetRoot, widgetContainer, shadowRoot, bodyPresent,
                           bodyChildren, mounted, created, console >>
           /\ lastOp'.events = <<>>
           /\ ~lastOp'.threw ]_vars

\* The loader right after a destroy that found nothing live.
C7_Witness ==
    /\ lastOp.op = "destroy"
    /\ lastOp.events = <<>>
    /\ mounted = {}
    /\ Idle
    /\ console # <<>>

\* C8: after any call to destroy the three handles widgetRoot,
\* widgetContainer and shadowRoot are all null.
C8_DestroyClearsHandles == lastOp.op = "destroy" => Idle

\* C9: the triple (widgetRoot, widgetContainer, shadowRoot) is always either
\* entirely null or entirely non-null.
C9_TwoStatesOnly == Idle \/ Mounted

\* C10: whenever a container is removed from the document by destroy (called
\* directly or from init), it still had a parent and the React root had been
\* unmounted before; a destroy called with a live instance unmounts first and
\* then removes the container exactly when it still has a parent.
C10_UnmountBeforeRemoval ==
    [][ /\ \A i \in DOMAIN lastOp'.events :
              lastOp'.events[i].kind = "removeChild"
                 => /\ lastOp'.events[i].id = widgetContainer
                    /\ widgetContainer \in Range(bodyChildren)
                    /\ \E j \in 1..(i - 1) : lastOp'.events[j] = Event("unmount", widgetRoot)
        /\ (lastOp'.op = "destroy" /\ widgetRoot # Null)
              => lastOp'.events =
                    IF widgetContainer \in Range(bodyChildren)
                    THEN << Event("unmount", widgetRoot), Event("removeChild", widgetContainer) >>
                    ELSE << Event("unmount", widgetRoot) >> ]_vars

\* A destroy that unmounted the root and then removed the container.
C10_Witness ==
    /\ lastOp.op = "destroy"
    /\ Len(lastOp.events) = 2
    /\ lastOp.events[1].kind = "unmount"
    /\ lastOp.events[2].kind = "removeChild"

\* C11: init called with a config object never throws, in any loader and
\* document state, and a call that does not complete a mount creates no
\* container and leaves the three handles as they were.
C11_InitNeverThrows ==
    [][ (lastOp'.op = "init" /\ lastOp'.config.defined)
        => /\ ~lastOp'.threw
           /\ "render" \notin Kinds(lastOp'.events)
                 => UNCHANGED << widgetRoot, widgetContainer, shadowRoot, created >> ]_vars

Tagged(els) == { i \in 1..Len(els) : els[i].botId # Absent }

\* The tagged script is present and carries a non-empty bot id and api key.
TagUsable(els) ==
    /\ Tagged(els) # {}
    /\ LET tag == els[CHOOSE i \in Tagged(els) : \A j \in Tagged(els) : i <= j]
       IN  tag.botId # "" /\ tag.apiKey \notin {Absent, ""}

\* C13: when the listener runs and the document has no tagged script, or the
\* tagged script lacks a non-empty bot id or api key, it makes no call to init
\* and changes nothing: handles, document, mounted roots and console.
C13_AutoInitGating ==
    [][ (lastOp'.op = "auto" /\ ~TagUsable(scripts))
        => /\ lastOp'.initCalls = 0
           /\ lastOp'.events = <<>>
           /\ ~lastOp'.threw
           /\ UNCHANGED << widgetRoot, widgetContainer, shadowRoot, bodyChildren,
                           mounted, created, console >> ]_vars

\* The listener has run on a document whose tagged script has no api key,
\* with an instance of the host page's own live.
C13_Witness ==
    /\ lastOp.op = "auto"
    /\ Tagged(scripts) # {}
    /\ ~TagUsable(scripts)
    /\ lastOp.initCalls = 0
    /\ Cardinality(LiveInstances) = 1

\* The tagged script: the first element, in document order, that carries
\* data-myndulon-bot-id.
TheTag(els) == els[CHOOSE i \in Tagged(els) : \A j \in Tagged(els) : i <= j]

\* C14 as stated: when the tagged script carries both required attributes,
\* the listener makes exactly one init call and the config carries the
\* bot-id, api-key and api-url attribute values verbatim (an absent api-url
\* staying absent).
C14_AttributesVerbatim ==
    [][ (lastOp'.op = "auto" /\ TagUsable(scripts))
        => /\ lastOp'.initCalls = 1
           /\ Cardinality({ i \in DOMAIN lastOp'.events :
                               lastOp'.events[i].kind = "render" }) = 1
           /\ mounted' = {[id |-> widgetRoot',
                           config |-> [defined |-> TRUE,
                                       botId |-> TheTag(scripts).botId,
                                       apiKey |-> TheTag(scripts).apiKey,
                                       apiUrl |-> TheTag(scripts).apiUrl,
                                       elementId |-> Absent]]} ]_vars

\* C14, amended: as above, but the api-url value is carried only when it is
\* non-empty; an absent and an empty api-url attribute both reach init as
\* undefined.
C14_AttributesNonEmptyUrl ==
    [][ (lastOp'.op = "auto" /\ TagUsable(scripts))
        => /\ lastOp'.initCalls = 1
           /\ Cardinality({ i \in DOMAIN lastOp'.events :
                               lastOp'.events[i].kind = "render" }) = 1
           /\ mounted' = {[id |-> widgetRoot',
                           config |-> [defined |-> TRUE,
                                       botId |-> TheTag(scripts).botId,
                                       apiKey |-> TheTag(scripts).apiKey,
                                       apiUrl |-> IF TheTag(scripts).apiUrl \in {Absent, ""}
                                                  THEN Absent
                                                  ELSE TheTag(scripts).apiUrl,
                                       elementId |-> Absent]]} ]_vars

\* The listener has initialised from a tag whose api-url attribute is absent.
C14_Witness ==
    /\ lastOp.op = "auto"
    /\ TagUsable(scripts)
    /\ TheTag(scripts).apiUrl = Absent
    /\ lastOp.initCalls = 1
    /\ \E r \in LiveInstances : r.config.botId = "b3" /\ r.config.apiUrl = Absent

\* C15: the listener never runs twice, and once the document has reached
\* DOM-ready it has run exactly once, whenever the loader was evaluated.
C15_AutoInitOnce == autoRuns <= 1 /\ (domReady => autoRuns = 1)

\* C16: an init that completes leaves mounted, under the root it created, a
\* component whose config is the caller's object, field by field.
C16_ConfigUnchanged ==
    [][ (lastOp'.op = "init" /\ HasCredentials(lastOp'.config) /\ ~lastOp'.threw)
        => \E r \in mounted' :
              /\ r.id = widgetRoot'
              /\ r.config = lastOp'.config
              /\ r.config.botId = lastOp'.config.botId
              /\ r.config.apiKey = lastOp'.config.apiKey
              /\ r.config.apiUrl = lastOp'.config.apiUrl
              /\ r.config.elementId = lastOp'.config.elementId ]_vars

\* A component mounted with an elementId and no apiUrl, as supplied.
C16_Witness ==
    /\ lastOp.op = "init"
    /\ ~lastOp.threw
    /\ lastOp.config.elementId = "e1"
    /\ lastOp.config.apiUrl = Absent
    /\ mounted = {[id |-> widgetRoot, config |-> lastOp.config]}

\* C17: an init that completes has created a fresh container element and
\* appended it as the last child of document.body, with or without an
\* elementId; the root is mounted inside that container and the host page's
\* own elements are as they were.
C17_OwnContainer ==
    [][ (lastOp'.op = "init" /\ HasCredentials(lastOp'.config) /\ ~lastOp'.threw)
        => /\ created' = created + 1
           /\ widgetContainer' = created'
           /\ widgetContainer' \notin Range(bodyChildren)
           /\ bodyChildren'[Len(bodyChildren')] = widgetContainer'
           /\ shadowRoot' = widgetContainer'
           /\ \A r \in mounted' : r.id = widgetContainer'
           /\ SelectSeq(bodyChildren', LAMBDA x : x < Null)
                 = SelectSeq(bodyChildren, LAMBDA x : x < Null)
           /\ {"createElement", "appendChild"} \subseteq Kinds(lastOp'.events) ]_vars

\* An init given an elementId on a page that has an element of its own: the
\* loader's container is the last child, after the host's.
C17_Witness ==
    /\ lastOp.op = "init"
    /\ ~lastOp.threw
    /\ lastOp.config.elementId = "e1"
    /\ Len(bodyChildren) >= 2
    /\ bodyChildren[1] < Null
    /\ bodyChildren[Len(bodyChildren)] = widgetContainer

\* C18: an init that passes validation adds exactly one entry to the console,
\* the non-error trace carrying config.botId, as its last step, after the
\* container was attached and the component rendered; an init rejected by
\* validation adds exactly one entry, the error, and no completion trace.
C18_Diagnostics ==
    [][ /\ (lastOp'.op = "init" /\ HasCredentials(lastOp'.config))
           => /\ console' = Append(console, [level |-> "log", botId |-> lastOp'.config.botId])
              /\ \E i, j, k \in DOMAIN lastOp'.events :
                    /\ i < j /\ j < k /\ k = Len(lastOp'.events)
                    /\ lastOp'.events[i].kind = "appendChild"
                    /\ lastOp'.events[j].kind = "render"
                    /\ lastOp'.events[k].kind = "console.log"
        /\ (lastOp'.op = "init" /\ LacksCredentials(lastOp'.config))
           => /\ console' = Append(console, [level |-> "error", botId |-> Absent])
              /\ "console.log" \notin Kinds(lastOp'.events) ]_vars

\* C20: when the listener runs on a document whose tagged script carries
\* both required attributes, after the host page has already called init
\* and/or destroy, whatever the host mounted is torn down and the single live
\* instance is the one configured from the tag.
C20_AutoInitReplaces ==
    [][ (lastOp'.op = "auto" /\ TagUsable(scripts) /\ calls >= 1)
        => /\ Cardinality(mounted') = 1
           /\ LiveInstances' = mounted'
           /\ mounted \cap mounted' = {}
           /\ \A r \in mounted' : /\ r.config.botId = TheTag(scripts).botId
                                  /\ r.config.apiKey = TheTag(scripts).apiKey
           /\ widgetContainer \notin Range(bodyChildren')
           /\ LoaderContainers' = {widgetContainer'} ]_vars

\* The listener has replaced a live instance of the host page's.
C20_Witness ==
    /\ lastOp.op = "auto"
    /\ calls >= 1
    /\ Len(lastOp.events) >= 2
    /\ lastOp.events[1].kind = "unmount"
    /\ lastOp.events[2].kind = "removeChild"
    /\ \E r \in LiveInstances : r.config.botId = "b3" /\ r.config.apiKey = "k3"

\* C19 as stated: the copied embed code calls init with botId, apiKey and
\* apiUrl all taken from the selected bot's record, and running it leaves one
\* live instance with that config.
C19_EmbedFromBotRecord ==
    [][ /\ clipboard' # clipboard
           => /\ clipboard'.script # Absent
              /\ clipboard'.config.botId = dashboard.selectedBot.id
              /\ clipboard'.config.apiKey = dashboard.selectedBot.api_key
              /\ clipboard'.config.apiUrl \in {dashboard.selectedBot.id,
                                               dashboard.selectedBot.api_key,
                                               dashboard.selectedBot.ai_base_url}
        /\ lastOp'.op = "snippet"
           => /\ ~lastOp'.threw
              /\ LiveInstances' = {[id |-> widgetRoot', config |-> clipboard.config]}
              /\ mounted' = LiveInstances' ]_vars

\* C19, amended: botId and apiKey come from the selected bot's record, apiUrl
\* is the dashboard's own origin (the origin the loader script is served
\* from) and elementId is 'myndulon-widget'; running the code leaves one live
\* instance with exactly that config.
C19_EmbedFromBotAndOrigin ==
    [][ /\ clipboard' # clipboard
           => /\ clipboard'.script = baseUrl
              /\ clipboard'.config.botId = dashboard.selectedBot.id
              /\ clipboard'.config.apiKey = dashboard.selectedBot.api_key
              /\ clipboard'.config.apiUrl = clipboard'.script
              /\ clipboard'.config.elementId = "myndulon-widget"
        /\ lastOp'.op = "snippet"
           => /\ ~lastOp'.threw
              /\ LiveInstances' = {[id |-> widgetRoot', config |-> clipboard.config]}
              /\ mounted' = LiveInstances' ]_vars

\* A host page on which the embed code copied for bot-2 has run.
C19_Witness ==
    /\ lastOp.op = "snippet"
    /\ clipboard.config.botId = "bot-2"
    /\ LiveInstances = {[id |-> widgetRoot, config |-> clipboard.config]}
    /\ \E r \in LiveInstances : r.config.apiUrl = "https://dashboard"

\* C21: the listener inspects only the first script element, in document
\* order, that carries data-myndulon-bot-id: when that element has an empty
\* bot id or no api-key attribute, no init call is made and nothing changes,
\* even though a later tagged script carries both; and a call that is made
\* takes its bot id and api key from that first element.
C21_FirstTaggedOnly ==
    [][ lastOp'.op = "auto"
        => /\ ( /\ Tagged(scripts) # {}
                /\ \/ TheTag(scripts).botId = ""
                   \/ TheTag(scripts).apiKey = Absent )
              => /\ lastOp'.initCalls = 0
                 /\ lastOp'.events = <<>>
                 /\ UNCHANGED << widgetRoot, widgetContainer, shadowRoot, bodyChildren,
                                 mounted, created, console >>
           /\ lastOp'.initCalls = 1
              => /\ lastOp'.config.botId = TheTag(scripts).botId
                 /\ lastOp'.config.apiKey = TheTag(scripts).apiKey ]_vars

\* The listener has run, and called nothing, on a document whose first
\* tagged script is unusable and whose second carries both attributes.
C21_Witness ==
    /\ lastOp.op = "auto"
    /\ lastOp.initCalls = 0
    /\ Len(scripts) = 2
    /\ scripts[1].botId # Absent
    /\ scripts[1].botId = "" \/ scripts[1].apiKey = Absent
    /\ scripts[2].botId \notin {Absent, ""}
    /\ scripts[2].apiKey \notin {Absent, ""}
    /\ mounted = {}

\* C22: fetchWithAuth returns the response iff response.ok; for every non-ok
\* response it throws an ApiError whose status is the response status and
\* whose message is the body's detail or, when the body is not JSON or has
\* no detail, the status text; a non-ok response is never returned.
C22_NonOkThrowsApiError ==
    (api.call = "fetchWithAuth" /\ ~api.pending /\ api.net.kind = "response")
    => /\ api.fetched.kind = "return" <=> api.net.status \in 200..299
       /\ api.fetched.kind = "return" => api.fetched.response = api.net
       /\ api.net.status \notin 200..299
             => /\ api.fetched.kind = "throw"
                /\ api.fetched.error.name = "ApiError"
                /\ api.fetched.error.status = api.net.status
                /\ api.fetched.error.message =
                      IF api.net.body = "{detail:'Bot not found'}"
                      THEN "Bot not found"
                      ELSE api.net.statusText

\* C23: checkAuth resolves true iff the bots request succeeds, resolves
\* false iff the request fails with an ApiError of status 401, and otherwise
\* rejects with the very error the request failed with (a non-401 HTTP error,
\* a network error).
C23_CheckAuth ==
    (api.call = "checkAuth" /\ ~api.pending)
    => LET unauthorized == /\ api.fetched.kind = "throw"
                           /\ api.fetched.error.name = "ApiError"
                           /\ api.fetched.error.status = 401
       IN  /\ (api.authed.kind = "return" /\ api.authed.value)
                 <=> api.fetched.kind = "return"
           /\ (api.authed.kind = "return" /\ ~api.authed.value) <=> unauthorized
           /\ (api.fetched.kind = "throw" /\ ~unauthorized)
                 => (api.authed.kind = "throw" /\ api.authed.error = api.fetched.error)
           /\ api.net.kind = "networkError" => api.authed.kind = "throw"
           /\ (api.net.kind = "response" /\ api.net.status \in {404, 500})
                 => api.authed.kind = "throw"

\* checkAuth has rejected with the ApiError of a 500 answer.
C23_Witness ==
    /\ api.call = "checkAuth"
    /\ ~api.pending
    /\ api.net.status = 500
    /\ api.authed.kind = "throw"
    /\ api.authed.error = [name |-> "ApiError", message |-> "Internal Server Error",
                           status |-> 500]

\* C24: every submit of the login form clears the previous error and sets
\* isLoading before it calls login; when login rejects, the error message is
\* set, isLoading is false again and the route is unchanged; the route
\* changes, to /dashboard, only in the step in which login resolves, and no
\* error is on display after a successful login.
C24_LoginForm ==
    [][ /\ lastOp'.op = "handleSubmit"
           => /\ loginPage'.error = Absent
              /\ loginPage'.isLoading
              /\ loginPage'.location = loginPage.location
              /\ \E i, j, k \in DOMAIN lastOp'.events :
                    /\ i < k /\ j < k
                    /\ lastOp'.events[i] = Event("setError", Null)
                    /\ lastOp'.events[j] = Event("setIsLoading", 1)
                    /\ lastOp'.events[k].kind = "login"
        /\ lastOp'.op = "loginRejected"
           => /\ loginPage'.error = "Invalid username or password"
              /\ ~loginPage'.isLoading
              /\ loginPage'.location = loginPage.location
              /\ "navigate" \notin Kinds(lastOp'.events)
        /\ (loginPage'.location # loginPage.location \/ "navigate" \in Kinds(lastOp'.events))
           => /\ lastOp'.op = "loginResolved"
              /\ loginPage.pending
              /\ loginPage'.location = "/dashboard"
        /\ lastOp'.op = "loginResolved"
           => /\ loginPage'.error = Absent
              /\ "setError" \notin Kinds(lastOp'.events) ]_vars

\* A second submit, after a rejected one, has succeeded: the route is
\* /dashboard and the earlier error is gone.
C24_Witness ==
    /\ lastOp.op = "loginResolved"
    /\ requests = 2
    /\ loginPage.location = "/dashboard"
    /\ loginPage.error = Absent
    /\ loginPage.username = "admin"

\* C25: botApi.delete is called only by confirmDelete, with a bot selected
\* (botToDelete not null) and with the id of the bot last passed to
\* handleDelete; the mutation closes the dialog and clears botToDelete only
\* when a delete succeeds: a failed delete leaves the dialog and the selected
\* bot as they are, an open dialog open with the same bot.
C25_DeleteOnlyConfirmed ==
    [][ /\ \A i \in DOMAIN lastOp'.events :
              lastOp'.events[i].kind = "botApi.delete"
                 => /\ lastOp'.op = "confirmDelete"
                    /\ botsPage.botToDelete # Null
                    /\ lastOp'.events[i].id = botsPage.handled
                    /\ lastOp'.events[i].id = botsPage.botToDelete
        /\ botsPage'.inFlight # botsPage.inFlight
              => lastOp'.op \in {"confirmDelete", "deleteSucceeded", "deleteFailed"}
        /\ lastOp'.op = "deleteFailed"
              => /\ botsPage'.deleteDialogOpen = botsPage.deleteDialogOpen
                 /\ botsPage'.botToDelete = botsPage.botToDelete
                 /\ lastOp'.events = <<>>
        /\ (botsPage.botToDelete # Null /\ botsPage'.botToDelete = Null)
              => lastOp'.op = "deleteSucceeded"
        /\ lastOp'.op = "deleteSucceeded"
              => (~botsPage'.deleteDialogOpen /\ botsPage'.botToDelete = Null) ]_vars

\* A delete has failed and the dialog is still open on the bot it was
\* confirmed for.
C25_Witness ==
    /\ lastOp.op = "deleteFailed"
    /\ botsPage.deleteDialogOpen
    /\ botsPage.botToDelete = 2
    /\ botsPage.handled = 2
    /\ botsPage.inFlight = <<>>
    /\ botsPage.bots = {1, 2}

\* The bot carries a training source: a source_type and a source_content.
HasTrainingSource(bot) ==
    /\ bot.source_type \notin {Absent, ""}
    /\ bot.source_content \notin {Absent, ""}

\* C26: in the create flow, training (ingest) starts only after the avatar
\* upload, if a file was selected, has completed, and only for a created bot
\* that has both source_type and source_content; the flow navigates to
\* /dashboard either at once, when the bot has no training source, or by the
\* timer a successful ingest has set; an avatar upload that rejects starts
\* neither training nor navigation.
C26_CreateFlow ==
    [][ /\ "botApi.ingest" \in Kinds(lastOp'.events)
           => /\ lastOp'.op \in {"createSucceeded", "uploadResolved"}
              /\ botForm.selectedAvatarFile
                    => (lastOp'.op = "uploadResolved" /\ botForm'.upload = "resolved")
              /\ HasTrainingSource(botForm'.newBot)
              /\ botForm'.isTraining
        /\ (lastOp'.op = "createSucceeded" /\ botForm.selectedAvatarFile)
           => /\ "botApi.uploadAvatar" \in Kinds(lastOp'.events)
              /\ Kinds(lastOp'.events) \cap {"botApi.ingest", "navigate"} = {}
        /\ "navigate" \in Kinds(lastOp'.events)
           => \/ /\ lastOp'.op \in {"createSucceeded", "uploadResolved"}
                 /\ ~HasTrainingSource(botForm'.newBot)
                 /\ botForm.selectedAvatarFile => lastOp'.op = "uploadResolved"
              \/ /\ lastOp'.op = "timer"
                 /\ botForm.timer
        /\ (botForm'.timer /\ ~botForm.timer)
           => (lastOp'.op = "ingestResolved" /\ botForm'.ingest = "resolved")
        /\ botForm'.location # botForm.location
           => ("navigate" \in Kinds(lastOp'.events) /\ botForm'.location = "/dashboard")
        /\ ( /\ \/ (lastOp'.op = "createSucceeded" /\ ~botForm.selectedAvatarFile)
                 \/ lastOp'.op = "uploadResolved"
              /\ ~HasTrainingSource(botForm'.newBot) )
           => (lastOp'.events[Len(lastOp'.events)].kind = "navigate"
               /\ botForm'.location = "/dashboard")
        /\ lastOp'.op = "uploadRejected"
           => /\ lastOp'.events = <<>>
              /\ botForm'.phase = "failed"
              /\ botForm'.isTraining = botForm.isTraining
              /\ botForm'.timer = botForm.timer
              /\ botForm'.location = botForm.location ]_vars

\* The whole flow has run: avatar uploaded, bot trained, the timer has
\* navigated to /dashboard.
C26_Witness ==
    /\ lastOp.op = "timer"
    /\ botForm.selectedAvatarFile
    /\ botForm.upload = "resolved"
    /\ botForm.ingest = "resolved"
    /\ HasTrainingSource(botForm.newBot)
    /\ botForm.location = "/dashboard"

\* C27: trainBot ends with isTraining false whether ingest resolves or
\* rejects; the navigation timer is set only in the step in which ingest
\* resolves; when ingest rejects, trainingMessage becomes 'Training failed: '
\* followed by the error's message and no timer is set.
C27_TrainBot ==
    [][ /\ lastOp'.op \in {"ingestResolved", "ingestRejected"}
           => /\ botForm.isTraining
              /\ ~botForm'.isTraining
              /\ lastOp'.events[Len(lastOp'.events)] = Event("setIsTraining", Null)
        /\ ("setTimeout" \in Kinds(lastOp'.events) \/ (botForm'.timer /\ ~botForm.timer))
           => lastOp'.op = "ingestResolved"
        /\ lastOp'.op = "ingestRejected"
           => /\ botForm'.trainingMessage.prefix = "Training failed: "
              /\ botForm'.trainingMessage.text \in {"Bot not found", "Failed to fetch"}
              /\ botForm'.timer = botForm.timer
              /\ botForm'.location = botForm.location
              /\ Kinds(lastOp'.events) \cap {"setTimeout", "navigate"} = {} ]_vars

\* Training has failed: the message is on display, isTraining is false, no
\* timer is set and the form is still on screen.
C27_Witness ==
    /\ lastOp.op = "ingestRejected"
    /\ botForm.trainingMessage = Message("Training failed: ", "Bot not found")
    /\ ~botForm.isTraining
    /\ ~botForm.timer
    /\ botForm.location = "/dashboard/bots/new"

\* The toasts among the calls of a handler.
Toasts(events) == { i \in DOMAIN events : events[i].kind = "toast" }

\* C28: isLoading becomes false when the initial config fetch settles,
\* whatever its outcome, and so eventually is false; the local config is
\* replaced by the server's only on an ok response; isSaving is true exactly
\* while a save request is in flight, is false again when the save settles,
\* with success or failure, and every save shows exactly one toast, when it
\* settles.
C28_SettingsFlags ==
    /\ [][ /\ lastOp'.op \in {"fetchConfig ok", "fetchConfig failed"}
              => (~settings'.isLoading /\ ~settings'.fetching)
           /\ settings'.config # settings.config
              => lastOp'.op \in {"fetchConfig ok", "onValueChange"}
           /\ lastOp'.op = "fetchConfig failed"
              => "setConfig" \notin Kinds(lastOp'.events)
           /\ settings'.isSaving <=> settings'.saving
           /\ lastOp'.op = "handleSave"
              => (settings'.isSaving /\ Toasts(lastOp'.events) = {})
           /\ lastOp'.op = "saveSettled"
              => /\ settings.isSaving
                 /\ ~settings'.isSaving
                 /\ Cardinality(Toasts(lastOp'.events)) = 1 ]_vars
    /\ <>(~settings.isLoading)
    /\ (settings.isSaving ~> ~settings.isSaving)

\* A save has failed after the config was loaded from the server: the
\* failure toast is shown, isSaving is false again.
C28_Witness ==
    /\ lastOp.op = "saveSettled"
    /\ lastOp.events = << Event("toast", 2), Event("setIsSaving", Null) >>
    /\ ~settings.isSaving
    /\ ~settings.isLoading
    /\ settings.config.ai_provider = "openai"
    /\ requests = 2
====
